---- MODULE Spec2Model ----
(***************************************************************************)
(* The time-series maintenance core of okx-lending-rate: the live store    *)
(* data/rates.csv, the month archives data/YYYY-MM.csv, the rollover of    *)
(* fetchRate.ts (performRollover), its hourly upsert (fetchLendingRate),   *)
(* the older fetchRate.ts without rollover, and the month backfill of      *)
(* fetchHistory (fetchHistoricalRates + fetchLendingRate).                 *)
(*                                                                         *)
(* An instant is a natural number of clock ticks since the epoch.  The     *)
(* calendar is scaled down: TicksPerHour ticks to the hour, HoursPerDay    *)
(* hours to the day, DaysPerMonth days to the month.  A month key          *)
(* "YYYY-MM" is the number of whole months since the epoch.                *)
(***************************************************************************)
EXTENDS Integers, Sequences, FiniteSets, TLC

\* The scaled-down calendar of Date.
TicksPerHour == 2
HoursPerDay == 2
DaysPerMonth == 1
TicksPerDay == TicksPerHour * HoursPerDay
TicksPerMonth == TicksPerDay * DaysPerMonth

\* The clock runs from instant 0 to the instant before MaxTime.
MaxTime == 12
\* The two endpoints of the data source deliver at most MaxSamples samples in all.
MaxSamples == 3

Times == 0 .. (MaxTime - 1)
MonthKeys == 0 .. ((MaxTime - 1) \div TicksPerMonth)

Procs == {1, 2}

\* Offsets of local time from UTC, in hours, of the machines a script may run on.
TimeZones == {0, -1}

\* The rate strings the data source may send.
Rates == {"0.05", "NaN", "Infinity"}
HistoryRates == {"0.05", "NaN"}

\* parseFloat on a rate string: a number, NaN or an infinity.
parseFloat(s) ==
  CASE s = "0.05" -> [kind |-> "number", milli |-> 50]
    [] s = "Infinity" -> [kind |-> "infinity", milli |-> 0]
    [] OTHER -> [kind |-> "nan", milli |-> 0]

isNaN(x) == x.kind = "nan"
isFinite(x) == x.kind = "number"

\* The test of lines 184-187: a preRate that passes it is stored.
ValidPreRate(s) == ~(isNaN(parseFloat(s)) \/ ~isFinite(parseFloat(s)))

RateRecord == [timestamp : Times, preRate : Rates]

(***************************************************************************)
(* Date arithmetic.                                                        *)
(***************************************************************************)
\* getMonthKey: the UTC year and month of a timestamp.
getMonthKey(t) == t \div TicksPerMonth

\* Date.getUTCHours
getUTCHours(t) == (t \div TicksPerHour) % HoursPerDay

\* The UTC calendar day (year, month, day) of an instant, as a day number.
UTCDay(t) == t \div TicksPerDay

\* Date.toDateString: the calendar day of an instant in LOCAL time.
toDateString(t, zone) == (t + zone * TicksPerHour) \div TicksPerDay

\* Date.getFullYear / getMonth: the month of an instant in LOCAL time.
LocalMonth(t, zone) == (t + zone * TicksPerHour) \div TicksPerMonth

\* Date.getDate: the day of the month, from 1, in LOCAL time.
LocalDate(t, zone) == (((t + zone * TicksPerHour) \div TicksPerDay) % DaysPerMonth) + 1

\* The UTC (year, month, day, hour) bucket of an instant.
Bucket(t) == t \div TicksPerHour

(***************************************************************************)
(* Sequences of records.                                                   *)
(***************************************************************************)
Range(s) == {s[i] : i \in 1 .. Len(s)}

RECURSIVE InsertSorted(_, _)
\* r goes after every element that is not later than it (a stable insertion).
InsertSorted(s, r) ==
  IF s = <<>> THEN <<r>>
  ELSE IF s[Len(s)].timestamp <= r.timestamp THEN Append(s, r)
  ELSE Append(InsertSorted(SubSeq(s, 1, Len(s) - 1), r), s[Len(s)])

\* A sort that is left out.
Unsorted(s) == s

RECURSIVE SortByTime(_)
\* Array.prototype.sort with (a, b) => time(a) - time(b): stable, ascending.
SortByTime(s) ==
  IF s = <<>> THEN <<>>
  ELSE InsertSorted(SortByTime(SubSeq(s, 1, Len(s) - 1)), s[Len(s)])

IsSorted(s) == \A i \in 1 .. (Len(s) - 1) : s[i].timestamp <= s[i + 1].timestamp

NoDuplicateBucket(s) ==
  \A i, j \in 1 .. Len(s) : i # j => Bucket(s[i].timestamp) # Bucket(s[j].timestamp)

Buckets(s) == {Bucket(s[i].timestamp) : i \in 1 .. Len(s)}

\* A grouping by the month of a local time one hour ahead of UTC.
MonthDataLocal(s, k) == SelectSeq(s, LAMBDA r : (r.timestamp + TicksPerHour) \div TicksPerMonth = k)

\* A grouping that puts every record into every month.
MonthDataAll(s, k) == s

\* A grouping that compares month keys with <= where equality is meant.
MonthDataUpTo(s, k) == SelectSeq(s, LAMBDA r : getMonthKey(r.timestamp) <= k)

\* The records of one month, in file order (dataByMonth.get(k)).
MonthData(s, k) == SelectSeq(s, LAMBDA r : getMonthKey(r.timestamp) = k)

RECURSIVE MonthOrder(_)
\* The keys of dataByMonth in Map insertion order: first appearance in the file.
MonthOrder(s) ==
  IF s = <<>> THEN <<>>
  ELSE LET front == MonthOrder(SubSeq(s, 1, Len(s) - 1))
           k == getMonthKey(s[Len(s)].timestamp)
       IN IF k \in Range(front) THEN front ELSE Append(front, k)

(***************************************************************************)
(* Files.  A CSV file is absent, or holds the header and a list of rows.   *)
(***************************************************************************)
NoFile == [exists |-> FALSE, rows |-> <<>>]
FileOf(rows) == [exists |-> TRUE, rows |-> rows]

\* readCsvData: the possible results as (rows, ok) pairs.  A missing file gives
\* no rows; a file that is there gives its rows as they stand, every row turned
\* into a record without a look at its timestamp or rate, unless the read
\* stream reports an error.
readCsvData(file) ==
  IF ~file.exists THEN {[rows |-> <<>>, ok |-> TRUE]}
  ELSE {[rows |-> file.rows, ok |-> TRUE], [rows |-> <<>>, ok |-> FALSE]}

\* A writeCsvData that appends to the file where it should replace it.
writeCsvDataAppending(old, data) ==
  IF Len(data) = 0 THEN {[file |-> old, ok |-> TRUE]}
  ELSE {[file |-> FileOf(old.rows \o data), ok |-> TRUE],
        [file |-> old, ok |-> FALSE]}

\* A writeCsvData that writes the first record only.
writeCsvDataFirst(old, data) ==
  IF Len(data) = 0 THEN {[file |-> old, ok |-> TRUE]}
  ELSE {[file |-> FileOf(<<data[1]>>), ok |-> TRUE],
        [file |-> old, ok |-> FALSE],
        [file |-> FileOf(<<>>), ok |-> FALSE]}

\* A writeCsvData that swallows the error of a failed write.
writeCsvDataSilent(old, data) ==
  IF Len(data) = 0 THEN {[file |-> old, ok |-> TRUE]}
  ELSE {[file |-> FileOf(data), ok |-> TRUE],
        [file |-> old, ok |-> TRUE],
        [file |-> FileOf(<<>>), ok |-> TRUE]}

\* writeCsvData(path, data, false): the possible results as (file, ok) pairs.
\* An empty data list writes nothing.  Otherwise the header is written first
\* (truncating the file) and the records after it; a failure leaves the file
\* as it was or with the header only.
writeCsvData(old, data) ==
  IF Len(data) = 0 THEN {[file |-> old, ok |-> TRUE]}
  ELSE {[file |-> FileOf(data), ok |-> TRUE],
        [file |-> old, ok |-> FALSE],
        [file |-> FileOf(<<>>), ok |-> FALSE]}

(***************************************************************************)
(* State.                                                                  *)
(***************************************************************************)
VARIABLES
  now,     \* the system clock (new Date())
  live,    \* data/rates.csv (CSV_PATH)
  arch,    \* data/YYYY-MM.csv, by month key
  loc,     \* per process: position and local variables of the running script
  runs,    \* number of samples the data source has delivered so far
  ghost    \* history for stating the properties: see NoGhost

vars == <<now, live, arch, loc, runs, ghost>>

\* The process of the single-writer deployment.
Writers == {1}

NoRecord == [timestamp |-> 0, preRate |-> "0.05"]

\* A process that is not running; outcome tells how its last run ended.
IdleLoc(outcome) ==
  [pc |-> "idle", mode |-> "none", existingData |-> <<>>, currentMonthKey |-> 0,
   months |-> <<>>, i |-> 0, hasRollover |-> FALSE, record |-> NoRecord,
   allHistoricalData |-> <<>>, currentMonth |-> 0, currentDay |-> 0,
   outcome |-> outcome]

Stores == [live |-> live, arch |-> arch]

NoGhost ==
  [atInvoke |-> <<>>,   \* the stores when the running script was invoked, until its request is answered
   atFetch |-> <<>>,    \* the stores when the running script sent its request
   response |-> <<>>,   \* the answer the running script got to its request
   rollLast |-> <<>>,   \* the stores and the current month when the last rollover
                        \* completed, and how many rollovers completed in a row in
                        \* that month, if nothing else has written to a store since
   backfilled |-> FALSE, \* the last script that ended was a backfill that wrote the live store
   emptyAnswer |-> FALSE] \* no script runs, and the one that ended last was an ingest whose
                         \* request was answered with success and an empty data list

Init ==
  /\ now = 0
  /\ live = NoFile
  /\ arch = [k \in MonthKeys |-> NoFile]
  /\ loc = [p \in Procs |-> IdleLoc("none")]
  /\ runs = 0
  /\ ghost = NoGhost

\* process.exit, or the return of the script: it ends with an outcome.
Exit(p, outcome) == [loc EXCEPT ![p] = IdleLoc(outcome)]

\* A write outside a completed rollover ends the "no write in between".
Dirty(g) == [g EXCEPT !.rollLast = <<>>]

\* A rollover completes with the stores st, the current month key being k.
RollDone(g, st, k) ==
  [g EXCEPT !.atFetch = <<st>>,
            !.rollLast = <<[stores |-> st, month |-> k,
                            n |-> IF g.rollLast # <<>> /\ g.rollLast[1].month = k THEN 2 ELSE 1]>>]

\* The script has ended.
Ended(g) ==
  [g EXCEPT !.atInvoke = <<>>, !.atFetch = <<>>, !.response = <<>>,
            !.backfilled = FALSE, !.emptyAnswer = FALSE]

\* An answer that reports success and holds no sample.
EmptyResult(response) == response.ok /\ response.code = "0" /\ response.data = <<>>

(***************************************************************************)
(* The clock.                                                              *)
(***************************************************************************)
\* Time is read at the rollover (line 103), after the request (line 190) and at
\* the start of a backfill (line 307): the clock moves between two scripts or
\* while a script of P waits for the lending-rate-summary request.
Tick(P) ==
  /\ now + 1 < MaxTime
  /\ \A p \in P : loc[p].pc \in {"idle", "fetch"}
  /\ now' = now + 1
  /\ UNCHANGED <<live, arch, loc, runs, ghost>>

(***************************************************************************)
(* fetchRate.ts with rollover: fetchLendingRate and performRollover.       *)
(***************************************************************************)
StartIngest(p) ==
  /\ loc[p].pc = "idle"
  /\ loc' = [loc EXCEPT ![p] = [IdleLoc("none") EXCEPT !.pc = "rollover", !.mode = "ingest"]]
  /\ ghost' = [ghost EXCEPT !.atInvoke = <<Stores>>, !.emptyAnswer = FALSE]
  /\ UNCHANGED <<now, live, arch, runs>>

\* The locals of performRollover go out of scope when it returns.
Returned(l, k) ==
  [l EXCEPT !.pc = "fetch", !.existingData = <<>>, !.months = <<>>, !.i = 0,
            !.hasRollover = FALSE, !.currentMonthKey = k]

\* performRollover, lines 92-116: the early returns, the read, the grouping by month.
RollRead(p) ==
  /\ loc[p].pc = "rollover"
  /\ \E read \in readCsvData(live) :
       \/ /\ read.ok /\ Len(read.rows) = 0
          /\ loc' = [loc EXCEPT ![p] = Returned(@, getMonthKey(now))]
          /\ ghost' = RollDone(ghost, Stores, getMonthKey(now))
       \/ /\ read.ok /\ Len(read.rows) > 0
          /\ loc' = [loc EXCEPT ![p].pc = "archive",
                                ![p].existingData = read.rows,
                                ![p].currentMonthKey = getMonthKey(now),
                                ![p].months = MonthOrder(read.rows),
                                ![p].i = 1]
          /\ ghost' = ghost
       \/ /\ ~read.ok
          /\ loc' = Exit(p, "error")
          /\ ghost' = Ended(ghost)
  /\ UNCHANGED <<now, live, arch, runs>>

\* performRollover, lines 121-134: one iteration of the loop over dataByMonth.
RollArchive(p) ==
  /\ loc[p].pc = "archive"
  /\ loc[p].i <= Len(loc[p].months)
  /\ LET monthKey == loc[p].months[loc[p].i]
         monthData == SortByTime(MonthData(loc[p].existingData, monthKey))
     IN IF monthKey # loc[p].currentMonthKey
        THEN \E w \in writeCsvData(arch[monthKey], monthData) :
               /\ arch' = [arch EXCEPT ![monthKey] = w.file]
               /\ loc' = IF w.ok
                         THEN [loc EXCEPT ![p].i = @ + 1, ![p].hasRollover = TRUE]
                         ELSE Exit(p, "error")
               /\ ghost' = IF w.ok THEN ghost ELSE Ended(Dirty(ghost))
        ELSE /\ loc' = [loc EXCEPT ![p].i = @ + 1]
             /\ UNCHANGED <<arch, ghost>>
  /\ UNCHANGED <<now, live, runs>>

\* performRollover, lines 136-152: the rewrite of the live file.
RollLive(p) ==
  /\ loc[p].pc = "archive"
  /\ loc[p].i > Len(loc[p].months)
  /\ LET currentMonthData == SortByTime(MonthData(loc[p].existingData, loc[p].currentMonthKey))
     IN IF loc[p].hasRollover
        THEN \E w \in (IF Len(currentMonthData) > 0
                       THEN writeCsvData(live, currentMonthData)
                       ELSE {[file |-> FileOf(<<>>), ok |-> TRUE], [file |-> live, ok |-> FALSE]}) :
               /\ live' = w.file
               /\ IF w.ok
                  THEN /\ loc' = [loc EXCEPT ![p] = Returned(@, loc[p].currentMonthKey)]
                       /\ ghost' = RollDone(ghost, [live |-> w.file, arch |-> arch], loc[p].currentMonthKey)
                  ELSE /\ loc' = Exit(p, "error")
                       /\ ghost' = Ended(Dirty(ghost))
        ELSE /\ loc' = [loc EXCEPT ![p] = Returned(@, loc[p].currentMonthKey)]
             /\ ghost' = RollDone(ghost, Stores, loc[p].currentMonthKey)
             /\ live' = live
  /\ UNCHANGED <<now, arch, runs>>

(***************************************************************************)
(* The older fetchRate.ts: the same script without the rollover.           *)
(***************************************************************************)
StartLegacy(p) ==
  /\ loc[p].pc = "idle"
  /\ loc' = [loc EXCEPT ![p] = [IdleLoc("none") EXCEPT !.pc = "fetch", !.mode = "legacy"]]
  /\ ghost' = [ghost EXCEPT !.atInvoke = <<Stores>>, !.atFetch = <<Stores>>, !.emptyAnswer = FALSE]
  /\ UNCHANGED <<now, live, arch, runs>>

\* What the lending-rate-summary endpoint may answer.
LiveResponses ==
  {[ok |-> FALSE, code |-> "0", data |-> <<>>]} \cup
  {[ok |-> TRUE, code |-> c, data |-> d] :
     c \in {"0", "50001"}, d \in {<<>>} \cup {<<r>> : r \in Rates}}

\* A validation that does not look at the rate.
AcceptedUnvalidated(response) ==
  /\ response.ok
  /\ ~(response.code # "0" \/ Len(response.data) = 0)

\* Lines 170-187: is the answer accepted?
Accepted(response) ==
  /\ response.ok
  /\ ~(response.code # "0" \/ Len(response.data) = 0)
  /\ ValidPreRate(response.data[1])

\* fetchLendingRate, lines 163-192: the request, its validation, the timestamp.
Fetch(p) ==
  /\ loc[p].pc = "fetch"
  /\ \E response \in LiveResponses :
       IF Accepted(response)
       THEN /\ runs < MaxSamples
            /\ runs' = runs + 1
            /\ loc' = [loc EXCEPT ![p].pc = "check",
                                  ![p].record = [timestamp |-> now, preRate |-> response.data[1]]]
            /\ ghost' = [ghost EXCEPT !.response = <<response>>, !.atInvoke = <<>>]
       ELSE /\ runs' = runs
            /\ loc' = Exit(p, "error")
            /\ ghost' = [Ended(ghost) EXCEPT !.emptyAnswer = EmptyResult(response)]
  /\ UNCHANGED <<now, live, arch>>

\* A test that compares the hour of the day and forgets the date.
SameHourOfDay(lastTimestamp, timestamp, zone) ==
  getUTCHours(lastTimestamp) = getUTCHours(timestamp)

\* The test of line 219 on the last row of the file.
SameHour(lastTimestamp, timestamp, zone) ==
  /\ getUTCHours(lastTimestamp) = getUTCHours(timestamp)
  /\ toDateString(lastTimestamp, zone) = toDateString(timestamp, zone)

\* A check that takes a file without rows for one that has the candidate's hour.
SkipsOnEmpty(rows, timestamp, zone) ==
  \/ Len(rows) = 0
  \/ SameHour(rows[Len(rows)].timestamp, timestamp, zone)

\* Lines 212-223: is the candidate skipped, given the rows of the file?
SkipsDuplicate(rows, timestamp, zone) ==
  /\ Len(rows) > 0
  /\ SameHour(rows[Len(rows)].timestamp, timestamp, zone)

\* fetchLendingRate, lines 195-223: create the file if missing, read it, compare the last row.
UpsertCheck(p) ==
  /\ loc[p].pc = "check"
  /\ \E zone \in TimeZones :
     LET file == IF live.exists THEN live ELSE FileOf(<<>>)
         skip == SkipsDuplicate(file.rows, loc[p].record.timestamp, zone)
     IN /\ live' = file
        /\ loc' = IF skip THEN Exit(p, "skipped") ELSE [loc EXCEPT ![p].pc = "append"]
        /\ ghost' = LET g == IF live.exists THEN ghost ELSE Dirty(ghost)
                    IN IF skip THEN Ended(g) ELSE g
  /\ UNCHANGED <<now, arch, runs>>

\* The script has ended after line 236: the row it reports as appended.
Appended(record) == [IdleLoc("written") EXCEPT !.record = record]

\* An append that replaces the rows of the file (append: false).
AppendRowOverwriting(p) ==
  /\ loc[p].pc = "append"
  /\ \/ /\ live' = FileOf(<<loc[p].record>>)
        /\ loc' = [loc EXCEPT ![p] = Appended(loc[p].record)]
        /\ ghost' = Ended(Dirty(ghost))
     \/ /\ live' = live
        /\ loc' = Exit(p, "error")
        /\ ghost' = Ended(ghost)
  /\ UNCHANGED <<now, arch, runs>>

\* fetchLendingRate, lines 226-236: append the row.
AppendRow(p) ==
  /\ loc[p].pc = "append"
  /\ \/ /\ live' = FileOf(Append(live.rows, loc[p].record))
        /\ loc' = [loc EXCEPT ![p] = Appended(loc[p].record)]
        /\ ghost' = Ended(Dirty(ghost))
     \/ /\ live' = live                       \* the write is refused
        /\ loc' = Exit(p, "error")
        /\ ghost' = Ended(ghost)
  /\ UNCHANGED <<now, arch, runs>>

(***************************************************************************)
(* fetchHistory: the backfill of the current month.                        *)
(***************************************************************************)
\* fetchLendingRate of fetchHistory, lines 307-315: the date is read in LOCAL time.
StartBackfill(p) ==
  /\ loc[p].pc = "idle"
  /\ \E zone \in TimeZones :
       loc' = [loc EXCEPT ![p] = [IdleLoc("none") EXCEPT !.pc = "history", !.mode = "backfill",
                                                        !.currentMonth = LocalMonth(now, zone),
                                                        !.currentDay = LocalDate(now, zone),
                                                        !.i = 1]]
  /\ ghost' = [ghost EXCEPT !.atInvoke = <<Stores>>, !.emptyAnswer = FALSE]
  /\ UNCHANGED <<now, live, arch, runs>>

\* The UTC day named by endDate for day number day of the month (line 331).
TargetDay(month, day) == month * DaysPerMonth + (day - 1)

\* The samples the lending-rate-history endpoint can hold at instant t for a
\* request about a day: one per hour, stamped at the hour, from the last hour of
\* the day before to the end of the day, none later than t.  The backfill never
\* parses the rate, so one finite and one non-finite rate string stand for all.
HistorySamples(targetDay, t) ==
  {r \in [timestamp : Times, preRate : HistoryRates] :
     /\ r.timestamp % TicksPerHour = 0
     /\ r.timestamp <= t
     /\ r.timestamp >= targetDay * TicksPerDay - TicksPerHour
     /\ r.timestamp < (targetDay + 1) * TicksPerDay}

\* What the endpoint may answer: a failure, an error code, or at most n samples.
HistoryResponses(targetDay, t, n) ==
  {[ok |-> FALSE, code |-> "0", data |-> <<>>], [ok |-> TRUE, code |-> "50001", data |-> <<>>]} \cup
  {[ok |-> TRUE, code |-> "0", data |-> d] :
     d \in UNION {[1 .. m -> HistorySamples(targetDay, t)] : m \in 0 .. n}}

\* fetchHistoricalRates, lines 276-300: convert, keep the records of the target
\* day, sort.  No record is dropped for its rate.
fetchHistoricalRates(data, targetDay) ==
  SortByTime(SelectSeq(data, LAMBDA r : UTCDay(r.timestamp) = targetDay))

\* Lines 318-342: one day of the loop, the request of fetchHistoricalRates included.
History(p) ==
  /\ loc[p].pc = "history"
  /\ loc[p].i <= loc[p].currentDay
  /\ LET targetDay == TargetDay(loc[p].currentMonth, loc[p].i)
     IN \E response \in HistoryResponses(targetDay, now, MaxSamples - runs) :
          /\ runs' = runs + Len(response.data)
          /\ IF ~response.ok \/ response.code # "0"
             THEN /\ loc' = Exit(p, "error")
                  /\ ghost' = Ended(ghost)
             ELSE /\ loc' = [loc EXCEPT ![p].i = @ + 1,
                                        ![p].allHistoricalData =
                                           @ \o fetchHistoricalRates(response.data, targetDay)]
                  /\ ghost' = ghost
  /\ UNCHANGED <<now, live, arch>>

\* Lines 344-365: nothing fetched, or the live file is overwritten with the batch.
Overwrite(p) ==
  /\ loc[p].pc = "history"
  /\ loc[p].i > loc[p].currentDay
  /\ IF Len(loc[p].allHistoricalData) = 0
     THEN /\ loc' = Exit(p, "nodata")
          /\ ghost' = Ended(ghost)
          /\ live' = live
     ELSE \/ /\ live' = FileOf(SortByTime(loc[p].allHistoricalData))
             /\ loc' = Exit(p, "overwrote")
             /\ ghost' = [Ended(Dirty(ghost)) EXCEPT !.backfilled = TRUE]
          \/ /\ live' = live                  \* the write is refused
             /\ loc' = Exit(p, "error")
             /\ ghost' = Ended(ghost)
  /\ UNCHANGED <<now, arch, runs>>

Backfill(p) ==
  \/ StartBackfill(p)
  \/ History(p)
  \/ Overwrite(p)

Ingest(p) ==
  \/ StartIngest(p)
  \/ RollRead(p)
  \/ RollArchive(p)
  \/ RollLive(p)
  \/ StartLegacy(p)
  \/ Fetch(p)
  \/ UpsertCheck(p)
  \/ AppendRow(p)

Next == Tick(Writers) \/ \E p \in Writers : Ingest(p) \/ Backfill(p)

Spec == Init /\ [][Next]_vars

(***************************************************************************)
(* Without the single writer: the scheduler lets two runs of fetchRate.ts  *)
(* overlap.  Each await and each file call of a run is a step of its own.  *)
(***************************************************************************)
IngestOne(p) ==
  \/ StartIngest(p)
  \/ RollRead(p)
  \/ RollArchive(p)
  \/ RollLive(p)
  \/ Fetch(p)
  \/ UpsertCheck(p)
  \/ AppendRow(p)

NextOverlapping == Tick(Procs) \/ \E p \in Procs : IngestOne(p)

SpecOverlapping == Init /\ [][NextOverlapping]_vars

(***************************************************************************)
(* Properties.                                                             *)
(***************************************************************************)
RowsOf(file) == Range(file.rows)

\* Process p takes a step that ends its script.
Ends(p) == loc[p].pc # "idle" /\ loc'[p].pc = "idle"

\* Process p completes performRollover in this step.
RolloverCompletes(p) == loc[p].pc \in {"rollover", "archive"} /\ loc'[p].pc = "fetch"

\* The archives that hold record r.
ArchivesOf(r) == {k \in MonthKeys : r \in RowsOf(arch[k])}

\* C1: when performRollover has completed, every record of the live store is of
\* the current UTC month read by the rollover, and every record the live store
\* held before with another month key is in exactly one archive, the one of
\* its own month key.
C1_RolloverPartitions ==
  \A p \in Procs :
    (loc[p].pc = "fetch" /\ loc[p].mode = "ingest") =>
      /\ \A r \in RowsOf(live) : getMonthKey(r.timestamp) = loc[p].currentMonthKey
      /\ \A r \in RowsOf(ghost.atInvoke[1].live) :
           getMonthKey(r.timestamp) # loc[p].currentMonthKey =>
             ArchivesOf(r) = {getMonthKey(r.timestamp)}

\* A rollover has completed that moved records of two past months out of the
\* live store and kept a record of the current month.
C1_Witness ==
  \E p \in Procs :
    /\ loc[p].pc = "fetch" /\ loc[p].mode = "ingest"
    /\ live.rows # <<>>
    /\ \E r1, r2 \in RowsOf(ghost.atInvoke[1].live) :
         /\ getMonthKey(r1.timestamp) # getMonthKey(r2.timestamp)
         /\ getMonthKey(r1.timestamp) # loc[p].currentMonthKey
         /\ getMonthKey(r2.timestamp) # loc[p].currentMonthKey

\* Process p writes the partition of a past month to its archive in this step,
\* and the write succeeds.
ArchiveWritten(p, k) ==
  /\ loc[p].pc = "archive"
  /\ loc[p].i <= Len(loc[p].months)
  /\ loc[p].months[loc[p].i] = k
  /\ k # loc[p].currentMonthKey
  /\ loc'[p].pc = "archive"

\* C2: when a rollover writes the partition of a past month to an archive that
\* already exists, the archive afterwards holds the hour buckets of its
\* previous records and of the partition, in ascending order: no bucket of the
\* archive is lost.
C2_ArchiveMerged ==
  [][\A p \in Procs : \A k \in MonthKeys :
       (ArchiveWritten(p, k) /\ arch[k].exists) =>
         /\ Buckets(arch'[k].rows) =
              Buckets(arch[k].rows) \cup Buckets(MonthData(loc[p].existingData, k))
         /\ IsSorted(arch'[k].rows)]_vars

\* C3: a rollover that completes right after a completed rollover, in the same
\* current month and with no other write to a store in between, leaves the
\* live store and every archive as the first one left them.
C3_RolloverIdempotent ==
  [][\A p \in Procs :
       (/\ RolloverCompletes(p)
        /\ ghost.rollLast # <<>>
        /\ ghost.rollLast[1].month = loc'[p].currentMonthKey) =>
         [live |-> live', arch |-> arch'] = ghost.rollLast[1].stores]_vars

\* Two rollovers have completed in a row in one month, the first of which left
\* records in an archive and in the live store.
C3_Witness ==
  /\ ghost.rollLast # <<>>
  /\ ghost.rollLast[1].n = 2
  /\ live.rows # <<>>
  /\ \E k \in MonthKeys : arch[k].rows # <<>>

C5_OneRecordPerHour ==
  /\ NoDuplicateBucket(live.rows)
  /\ \A k \in MonthKeys : NoDuplicateBucket(arch[k].rows)

\* C6: in every reachable state the rows of every store, live or archive, are
\* in non-decreasing timestamp order.
C6_RowsSorted ==
  /\ IsSorted(live.rows)
  /\ \A k \in MonthKeys : IsSorted(arch[k].rows)

\* An append has just added a later row to a live store, while an archive
\* written by a rollover holds several rows.
C6_Witness ==
  \E p \in Procs :
    /\ loc[p].pc = "idle" /\ loc[p].outcome = "written"
    /\ Len(live.rows) >= 2
    /\ live.rows[1].timestamp < live.rows[Len(live.rows)].timestamp
    /\ \E k \in MonthKeys : Len(arch[k].rows) >= 2

\* C7: a backfill that writes leaves in the live store the hour buckets of its
\* previous records and of the batch, in ascending order: every hour bucket
\* the store held before the backfill is still there.
C7_BackfillMerged ==
  [][\A p \in Procs :
       (loc[p].pc = "history" /\ loc'[p].pc = "idle" /\ loc'[p].outcome = "overwrote") =>
         /\ Buckets(live'.rows) = Buckets(live.rows) \cup Buckets(loc[p].allHistoricalData)
         /\ IsSorted(live'.rows)]_vars

\* The records of past months that the rollover of process p read.
PastRecords(p) ==
  {r \in Range(loc[p].existingData) : getMonthKey(r.timestamp) # loc[p].currentMonthKey}

\* C8: a rollover changes the live store only when every record of a past
\* month that it read is in the archive of its month, and a rollover that
\* ends in an error while archive writes remain leaves the live store as it
\* was when the script was invoked.
C8_LiveAfterArchives ==
  [][\A p \in Procs :
       /\ (loc[p].pc \in {"rollover", "archive"} /\ live' # live) =>
            \A r \in PastRecords(p) : r \in RowsOf(arch[getMonthKey(r.timestamp)])
       /\ (/\ loc[p].pc = "archive"
           /\ loc[p].i <= Len(loc[p].months)
           /\ loc'[p].pc = "idle") =>
            /\ loc'[p].outcome = "error"
            /\ live' = ghost.atInvoke[1].live]_vars

\* A rollover ended in an error after it had archived one past month and
\* before it archived another: the live store still holds the records of both.
C8_Witness ==
  \E p \in Procs :
    /\ loc[p].pc = "idle" /\ loc[p].outcome = "error"
    /\ \E r1, r2 \in RowsOf(live) :
         /\ getMonthKey(r1.timestamp) < getMonthKey(r2.timestamp)
         /\ getMonthKey(r2.timestamp) < getMonthKey(now)
         /\ r1 \in RowsOf(arch[getMonthKey(r1.timestamp)])
         /\ r2 \notin RowsOf(arch[getMonthKey(r2.timestamp)])

\* The request failed: no success status, an invalid structure, or a rate that
\* is not a finite number.
FetchFailed(response) ==
  \/ ~response.ok
  \/ response.code # "0"
  \/ response.data = <<>>
  \/ ~isFinite(parseFloat(response.data[1]))

\* The script of process p ends in this step and its request failed.
EndsAfterFailedFetch(p) ==
  /\ loc[p].mode \in {"ingest", "legacy"}
  /\ Ends(p)
  /\ \/ loc[p].pc = "fetch"
     \/ ghost.response # <<>> /\ FetchFailed(ghost.response[1])

\* C9: when the request of an ingest fails, the live store and every archive
\* hold at the end of the script what they held when the script was invoked.
C9_FailedFetchLeavesInvokedStores ==
  [][\A p \in Procs :
       (loc[p].mode \in {"ingest", "legacy"} /\ loc[p].pc = "fetch" /\ Ends(p)) =>
         [live |-> live', arch |-> arch'] = ghost.atInvoke[1]]_vars

\* C9 as amended: when the request of an ingest fails, the script ends in the
\* error outcome and the live store and every archive hold at its end what
\* they held when the request was sent, that is, when the rollover completed.
C9_FailedFetchWritesNothing ==
  [][\A p \in Procs :
       EndsAfterFailedFetch(p) =>
         /\ loc'[p].outcome = "error"
         /\ [live |-> live', arch |-> arch'] = ghost.atFetch[1]]_vars

\* A script has ended in an error without adding a row, after its rollover
\* had moved records to an archive and emptied the live store.
C9_Witness ==
  \E p \in Procs :
    /\ loc[p].pc = "idle" /\ loc[p].outcome = "error"
    /\ live.exists /\ live.rows = <<>>
    /\ ghost.rollLast # <<>>
    /\ ghost.rollLast[1].stores = Stores
    /\ \E k \in MonthKeys : arch[k].rows # <<>>

\* C10: in every reachable state every record of every store has a finite
\* rate, and an ingest whose request brought a rate that is not finite ends in
\* the error outcome.
C10_FiniteRates ==
  /\ \A r \in RowsOf(live) : isFinite(parseFloat(r.preRate))
  /\ \A k \in MonthKeys : \A r \in RowsOf(arch[k]) : isFinite(parseFloat(r.preRate))
  /\ ghost.response # <<>> => isFinite(parseFloat(ghost.response[1].data[1]))

\* C11: a backfill never creates or changes an archive; and when the live store
\* is as a backfill left it, the rollover of the next ingest, once completed,
\* leaves in the live store records of the current month only, and every
\* record the backfill left is then in the live store if it is of the current
\* month and in the archive of its own month otherwise: none is lost.
C11_BackfillThenRollover ==
  [][\A p \in Procs :
       /\ loc[p].mode = "backfill" => arch' = arch
       /\ (RolloverCompletes(p) /\ ghost.backfilled) =>
            /\ \A r \in RowsOf(live') : getMonthKey(r.timestamp) = loc'[p].currentMonthKey
            /\ \A r \in RowsOf(live) :
                 IF getMonthKey(r.timestamp) = loc'[p].currentMonthKey
                 THEN r \in RowsOf(live')
                 ELSE r \in RowsOf(arch'[getMonthKey(r.timestamp)])]_vars

\* The rollover of the ingest that followed a backfill has completed: it moved
\* the records the backfill left, several of them, into the archive of their month.
C11_Witness ==
  \E p \in Procs :
    /\ loc[p].pc = "fetch" /\ loc[p].mode = "ingest"
    /\ ghost.backfilled
    /\ Cardinality(RowsOf(ghost.atInvoke[1].live)) >= 2
    /\ live.rows = <<>>
    /\ \A r \in RowsOf(ghost.atInvoke[1].live) : r \in RowsOf(arch[getMonthKey(r.timestamp)])

\* A row that is not a record: its rate is not a finite number.
Malformed(r) == ~isFinite(parseFloat(r.preRate))

\* C12: the load of a live file that holds a malformed row fails: the rollover
\* that reads such a file ends in the error outcome, so it never takes the row
\* into what it goes on to write.
C12_LoadRejectsMalformed ==
  [][\A p \in Procs :
       (/\ loc[p].pc = "rollover"
        /\ loc'[p] # loc[p]
        /\ \E r \in RowsOf(live) : Malformed(r)) =>
         loc'[p].pc = "idle" /\ loc'[p].outcome = "error"]_vars

\* C13: when performRollover has completed, no UTC hour bucket has a record
\* both in the live store and in an archive.
C13_LiveAndArchivesDisjoint ==
  \A p \in Procs :
    (loc[p].pc = "fetch" /\ loc[p].mode = "ingest") =>
      \A k \in MonthKeys : Buckets(live.rows) \cap Buckets(arch[k].rows) = {}

\* A rollover has completed that found a record both in the live store and in
\* the archive of its month, and that kept a record in the live store.
C13_Witness ==
  \E p \in Procs :
    /\ loc[p].pc = "fetch" /\ loc[p].mode = "ingest"
    /\ live.rows # <<>>
    /\ \E r \in RowsOf(ghost.atInvoke[1].live) :
         r \in RowsOf(ghost.atInvoke[1].arch[getMonthKey(r.timestamp)])

\* C14: a rollover that finds the live file missing or without records creates
\* and changes no file; and the duplicate check of an ingest on a live file
\* that is missing or holds the header only never skips the candidate: it
\* goes on to the append, and an append that is not refused leaves the live
\* file with exactly the candidate under the header.
C14_EmptyStoreOperations ==
  [][\A p \in Procs :
       /\ (loc[p].pc = "rollover" /\ loc'[p] # loc[p] /\ live.rows = <<>>) =>
            live' = live /\ arch' = arch
       /\ (loc[p].pc = "check" /\ loc'[p] # loc[p] /\ live.rows = <<>>) =>
            loc'[p].pc = "append" /\ live' = FileOf(<<>>)
       /\ (/\ loc[p].pc = "append" /\ loc'[p] # loc[p]
           /\ live.rows = <<>> /\ loc'[p].outcome # "error") =>
            live' = FileOf(<<loc[p].record>>) /\ loc'[p].outcome = "written"]_vars

\* An ingest has written its sample as the only record of a live file that its
\* rollover had left with the header only.
C14_Witness ==
  \E p \in Procs :
    /\ loc[p].pc = "idle" /\ loc[p].outcome = "written"
    /\ Len(live.rows) = 1
    /\ ghost.rollLast = <<>>
    /\ \E k \in MonthKeys :
         /\ arch[k].rows # <<>>
         /\ k < getMonthKey(live.rows[1].timestamp)

\* C15: an ingest whose request is answered with success and no sample does
\* not end in the error outcome and leaves every store as it was when the
\* request was sent; a backfill whose requests brought no record ends with
\* the outcome "nodata" and leaves every store unchanged.
C15_EmptyResultIsValid ==
  [][\A p \in Procs :
       /\ (loc[p].pc = "fetch" /\ loc'[p] # loc[p] /\ ghost'.emptyAnswer) =>
            /\ loc'[p].outcome # "error"
            /\ [live |-> live', arch |-> arch'] = Stores
       /\ (/\ loc[p].pc = "history" /\ loc'[p] # loc[p]
           /\ loc[p].i > loc[p].currentDay
           /\ loc[p].allHistoricalData = <<>>) =>
            /\ loc'[p].outcome = "nodata"
            /\ [live |-> live', arch |-> arch'] = Stores]_vars

\* C17: in every reachable state every record of the archive of a month key
\* has a timestamp whose UTC month key is that key.
C17_ArchiveHoldsItsMonth ==
  \A k \in MonthKeys : \A r \in RowsOf(arch[k]) : getMonthKey(r.timestamp) = k

\* One rollover, run two months after the first record, has written the
\* archives of two months, one of them with a record of the last hour of
\* its month.
C17_Witness ==
  \E k1, k2 \in MonthKeys :
    /\ k1 < k2 /\ k2 < getMonthKey(now)
    /\ arch[k1].rows # <<>> /\ arch[k2].rows # <<>>
    /\ \E r \in RowsOf(arch[k1]) : getMonthKey(r.timestamp + TicksPerHour) = k1 + 1
    /\ \E p \in Procs : loc[p].pc = "archive" /\ loc[p].i > Len(loc[p].months)

\* The record that the ended script of process p reports as appended.
AppendedBy(p, r) ==
  loc[p].pc = "idle" /\ loc[p].outcome = "written" /\ loc[p].record = r

\* Record r is in no store, live or archive.
InNoStore(r) == r \notin RowsOf(live) /\ \A k \in MonthKeys : r \notin RowsOf(arch[k])

\* C16: when two runs of the ingest overlap, a record that one of them has
\* appended can come to be in no store; and it leaves the stores only when
\* the rollover of the other run rewrites the live file, a rewrite that, when
\* it succeeds, writes back rows read before the record was appended (the
\* record is not among the rows that rollover read).
C16_LossIsStaleRewrite ==
  [][\A p \in Procs : \A r \in RowsOf(live) :
       (AppendedBy(p, r) /\ loc'[p] = loc[p] /\ InNoStore(r)') =>
         \E q \in Procs \ {p} :
           /\ loc[q].pc = "archive" /\ loc[q].i > Len(loc[q].months)
           /\ loc'[q].pc = "fetch" => r \notin Range(loc[q].existingData)]_vars

\* The rollover of one run has completed and the record that the other run
\* appended meanwhile is in no store.
C16_Witness ==
  \E p \in Procs : \E q \in Procs \ {p} :
    /\ AppendedBy(p, loc[p].record)
    /\ InNoStore(loc[p].record)
    /\ loc[q].pc = "fetch" /\ loc[q].mode = "ingest"
    /\ \E k \in MonthKeys : arch[k].rows # <<>>

====
